---- MODULE Spec2Model ----
(***************************************************************************)
(* A model of the Brent oil price change-point analysis:                   *)
(*   - the BayesianChangePointAnalysis object (src/analysis/change_point)  *)
(*     from construction through fit_model / analyze_change_points /       *)
(*     plot_results,                                                       *)
(*   - the model builders' change-point locations and segment assignment,  *)
(*   - the Flask API (src/backend/app.py) with its module-level objects,   *)
(*   - the ImpactAnalysis methods (src/analysis/impact_analysis),          *)
(*   - the EventResearch object (src/analysis/event_research),             *)
(*   - the loading of the price series (app.py, run_analysis.py).          *)
(* Each part has its own specification over the same variables; the        *)
(* variables of the other parts stay at their idle values.                 *)
(***************************************************************************)
EXTENDS Integers, Sequences, FiniteSets, TLC

VARIABLES
    \* ---- the analysis object (change_point.py, impact_analysis.py)
    data,              \* self.data: the price rows, in index order
    events,            \* self.events: the catalogued events, in row order
    log_returns,       \* self.log_returns
    ctor,              \* "new" before __init__ ran, then its outcome
    event_indicators,  \* the last result of _create_event_indicators
    indicators_made,   \* whether _create_event_indicators has been called
    models,            \* self.models : name -> model
    traces,            \* self.traces : name -> trace
    results,           \* self.results: name -> {summary, diagnostics, trace}
    call,              \* the last method call and what it returned or raised
    sampler_draws,     \* the location draws the sampling backend returns
    sampler_stats,     \* the sampling statistics the backend returns with them
    change_point_dates, \* the dates handed to the correlator and the impact measures
    \* ---- the model builders
    n_data,            \* len(self.log_returns) seen by the builder
    variant,           \* which builder ran last ("none" before any)
    changepoint_prior, \* the draw(s) of the Uniform prior, in twentieths
    changepoints,      \* the Deterministic change-point location(s)
    segment_idx,       \* the Deterministic segment index of every observation
    n_params,          \* the length of the parameter arrays segment_idx selects from
    periods,           \* the periods the hierarchical builder split the data into
    \* ---- the Flask application
    oil_data,              \* module global oil_data
    event_research,        \* module global event_research
    change_point_analyzer, \* module global change_point_analyzer
    impact_analyzer,       \* module global impact_analyzer
    req,                   \* the requests received, each with its handler's position
    postOk,                \* history: some POST run-change-point returned 200
    \* ---- the ImpactAnalysis object (impact_analysis.py)
    event_window,          \* the event_window argument of its methods
    impact,                \* the last method called and what it returned or raised
    \* ---- the EventResearch object (event_research.py)
    events_df,             \* self.events_df
    research_log,          \* the calls made on the object, each with its outcome
    \* ---- loading the price series (app.py load_data, run_analysis.py main)
    csv_file,              \* the rows of BrentOilPrices.csv
    load                   \* the loader that ran, and what it handed to the analysers

objVars == <<data, events, log_returns, ctor, event_indicators, indicators_made,
             models, traces, results, call, sampler_draws, sampler_stats,
                   change_point_dates>>
segVars == <<n_data, variant, changepoint_prior, changepoints, segment_idx,
             n_params, periods>>
apiVars == <<oil_data, event_research, change_point_analyzer, impact_analyzer,
             req, postOk>>
impVars == <<event_window, impact>>
resVars == <<events_df, research_log>>
loadVars == <<csv_file, load>>
vars == <<objVars, segVars, apiVars, impVars, resVars, loadVars>>

(***************************************************************************)
(* Bounds of the model.                                                    *)
(***************************************************************************)
MaxLen == 3        \* longest price series the constructor is given
MaxEvents == 2     \* most catalogued events
MaxPrice == 2      \* largest price value
MaxDraws == 2      \* most posterior draws in a trace
MaxN == 11         \* longest return sequence a model builder is given
MaxCp == 2         \* most change points of the single model
MaxRequests == 3   \* most API requests received

(***************************************************************************)
(* Helpers on sequences and numbers.                                       *)
(***************************************************************************)
RECURSIVE GCD(_, _)
GCD(a, b) == IF b = 0 THEN a ELSE GCD(b, a % b)

Abs(x) == IF x < 0 THEN -x ELSE x

Max2(a, b) == IF a >= b THEN a ELSE b

Min2(a, b) == IF a <= b THEN a ELSE b

SeqsUpTo(S, n) == UNION {[1..k -> S] : k \in 0..n}

(***************************************************************************)
(* The inputs.  Row i of the price file is dated TradingDay(i): ascending, *)
(* unique, with non-trading days in between.  Prices are small integers;   *)
(* 0 and -1 are values the constructor accepts although the data model     *)
(* calls only positive prices admissible.                                  *)
(***************************************************************************)
TradingDay(i) == IF i <= 2 THEN i ELSE i + 2

Prices == (-1)..MaxPrice

EventDates == {0, 1, 2, 3, 5}

PriceRows(ps) == [i \in 1..Len(ps) |-> [date |-> TradingDay(i), price |-> ps[i]]]

EventRows(ds) == [i \in 1..Len(ds) |-> [date |-> ds[i]]]

(***************************************************************************)
(* Floating-point values that are not finite, and log returns.             *)
(* ln(a/b) for a/b > 0 is kept as the reduced fraction a/b, which ln maps  *)
(* one-to-one.                                                             *)
(***************************************************************************)
NaN == [kind |-> "nan", num |-> 0, den |-> 0]

PosInf == [kind |-> "inf", num |-> 0, den |-> 0]

NegInf == [kind |-> "-inf", num |-> 0, den |-> 0]

Num(p) == [kind |-> "num", num |-> p, den |-> 1]

\* the fraction n/d (d > 0) in lowest terms
Rat(n, d) ==
    LET g == GCD(Abs(n), d)
    IN  [kind |-> "num", num |-> n \div g, den |-> d \div g]

\* a / b on float64 values: numpy's division, which never raises
Divide(a, b) ==
    IF a.kind = "nan" \/ b.kind = "nan" THEN NaN
    ELSE IF b.num = 0
         THEN (IF a.num > 0 THEN PosInf ELSE IF a.num < 0 THEN NegInf ELSE NaN)
         ELSE Rat((IF b.num < 0 THEN -1 ELSE 1) * a.num * b.den, Abs(b.num) * a.den)

\* a - b on finite or NaN float64 values
Minus(a, b) ==
    IF a.kind = "nan" \/ b.kind = "nan" THEN NaN
    ELSE Rat(a.num * b.den - b.num * a.den, a.den * b.den)

\* a * 100
Times100(a) == IF a.kind = "num" THEN Rat(100 * a.num, a.den) ELSE a

\* np.log of a ratio
Log(r) ==
    IF r.kind = "nan" \/ r.kind = "-inf" THEN NaN
    ELSE IF r.kind = "inf" THEN PosInf
    ELSE IF r.num < 0 THEN NaN
    ELSE IF r.num = 0 THEN NegInf
    ELSE [kind |-> "ln", num |-> r.num, den |-> r.den]

\* Series.shift(-1): a plausible slip of the shift's direction
ShiftBack(col) == [i \in 1..Len(col) |-> IF i = Len(col) THEN NaN ELSE col[i + 1]]

\* Series.shift(1): every value moves one row down, the first row gets NaN
Shift(col) == [i \in 1..Len(col) |-> IF i = 1 THEN NaN ELSE col[i - 1]]

IsNotNaN(row) == row.value.kind # "nan"

\* Series.dropna(): the rows whose value is not NaN, in order
DropNa(rows) == SelectSeq(rows, IsNotNaN)

\* np.log(data['price'] / data['price'].shift(1)).dropna()
LogReturns(rows) ==
    LET price == [i \in 1..Len(rows) |-> Num(rows[i].price)]
        prev  == Shift(price)
    IN  DropNa([i \in 1..Len(rows) |->
                  [date |-> rows[i].date, value |-> Log(Divide(price[i], prev[i]))]])

(***************************************************************************)
(* _create_event_indicators                                                *)
(***************************************************************************)
IndexOf(rows) == [i \in 1..Len(rows) |-> rows[i].date]

InIndex(d, index) == \E i \in 1..Len(index) : index[i] = d

\* Index.get_loc of a date of a unique index: its 0-based position
GetLoc(d, index) == (CHOOSE i \in 1..Len(index) : index[i] = d) - 1

\* the index the dates are looked up in: the price rows' instead of the returns'
IndicatorIndexOfPrices(rows, returns) == IndexOf(rows)

IndicatorIndex(rows, returns) == IndexOf(returns)

RECURSIVE MarkEvents(_, _, _)
MarkEvents(ind, evs, index) ==
    IF evs = <<>> THEN ind
    ELSE LET d == Head(evs).date
         IN  IF InIndex(d, index) /\ GetLoc(d, index) < Len(ind)
             THEN MarkEvents([ind EXCEPT ![GetLoc(d, index) + 1] = 1], Tail(evs), index)
             ELSE MarkEvents(ind, Tail(evs), index)

CreateEventIndicators(rows, returns, evs) ==
    MarkEvents([i \in 1..Len(returns) |-> 0], evs, IndicatorIndex(rows, returns))

(***************************************************************************)
(* Idle values: what a part's variables hold while another part runs.      *)
(***************************************************************************)
EmptyDict == [x \in {} |-> 0]

\* what the sampler reports about a run: per parameter the potential scale
\* reduction (in millionths) and the effective sample size, and the number of
\* divergent transitions
NoStats == [r_hat |-> <<>>, ess |-> <<>>, diverging |-> 0]

\* _compute_diagnostics: the three entries of the diagnostics dictionary
ComputeDiagnostics(stats) ==
    [r_hat |-> stats.r_hat,
     effective_sample_size |-> stats.ess,
     divergences |-> stats.diverging]

NoCall == [op |-> "none", name |-> "", outcome |-> "",
           change_points |-> <<>>, event_correlations |-> <<>>,
           impact_analysis |-> <<>>, model_diagnostics |-> ComputeDiagnostics(NoStats)]

NoImpact == [op |-> "none", outcome |-> "", results |-> <<>>, summary |-> EmptyDict,
             steps |-> <<>>]

ObjIdle ==
    /\ data = <<>> /\ events = <<>> /\ log_returns = <<>> /\ ctor = "idle"
    /\ event_indicators = <<>> /\ indicators_made = FALSE
    /\ models = EmptyDict /\ traces = EmptyDict /\ results = EmptyDict
    /\ call = NoCall /\ sampler_draws = <<>>
    /\ sampler_stats = NoStats /\ change_point_dates = <<>>

SegIdle ==
    /\ n_data = 0 /\ variant = "idle" /\ changepoint_prior = <<>>
    /\ changepoints = <<>> /\ segment_idx = <<>>
    /\ n_params = 0 /\ periods = <<>>

ImpIdle == event_window = 0 /\ impact = NoImpact

\* self.events_df = None
NoEventsDf == [is_none |-> TRUE, rows |-> <<>>]

ResIdle == events_df = NoEventsDf /\ research_log = <<>>

NoLoad == [by |-> "none", outcome |-> "", series |-> <<>>]

LoadIdle == csv_file = <<>> /\ load = NoLoad

None == 0
NoAnalyzer == [obj |-> None, trace |-> None, change_points |-> None]

ApiIdle ==
    /\ oil_data = "None" /\ event_research = None /\ impact_analyzer = None
    /\ change_point_analyzer = NoAnalyzer /\ req = <<>> /\ postOk = FALSE

(***************************************************************************)
(* BayesianChangePointAnalysis.__init__ / ImpactAnalysis.__init__          *)
(* The constructor stores its arguments, computes the log returns and      *)
(* starts with empty dictionaries.  It has no check of the series' length. *)
(***************************************************************************)
Construct ==
    /\ ctor = "new"
    /\ log_returns' = LogReturns(data)
    /\ models' = EmptyDict /\ traces' = EmptyDict /\ results' = EmptyDict
    /\ ctor' = "ok"
    /\ UNCHANGED <<data, events, event_indicators, indicators_made, call, sampler_draws, sampler_stats,
                   change_point_dates>>
    /\ UNCHANGED <<segVars, apiVars, impVars, resVars, loadVars>>

\* event_correlated_model's / regression_analysis' call of _create_event_indicators
MakeEventIndicators ==
    /\ ctor = "ok"
    /\ ~indicators_made
    /\ event_indicators' = CreateEventIndicators(data, log_returns, events)
    /\ indicators_made' = TRUE
    /\ UNCHANGED <<data, events, log_returns, ctor, models, traces, results, call,
                   sampler_draws, sampler_stats,
                   change_point_dates>>
    /\ UNCHANGED <<segVars, apiVars, impVars, resVars, loadVars>>

CtorInit ==
    /\ \E ps \in SeqsUpTo(Prices, MaxLen) : data = PriceRows(ps)
    /\ \E ds \in SeqsUpTo(EventDates, MaxEvents) : events = EventRows(ds)
    /\ log_returns = <<>> /\ ctor = "new"
    /\ event_indicators = <<>> /\ indicators_made = FALSE
    /\ models = EmptyDict /\ traces = EmptyDict /\ results = EmptyDict
    /\ call = NoCall /\ sampler_draws = <<>>
    /\ sampler_stats = NoStats /\ change_point_dates = <<>>
    /\ SegIdle /\ ApiIdle /\ ImpIdle /\ ResIdle /\ LoadIdle

CtorNext == Construct \/ MakeEventIndicators

CtorSpec == CtorInit /\ [][CtorNext]_vars

(***************************************************************************)
(* Claims about the constructor.                                           *)
(***************************************************************************)
Admissible(rows) == \A i \in 1..Len(rows) : rows[i].price > 0

\* ln(cur/prev) for two positive prices, as the data model defines a return
ExpectedReturn(cur, prev) ==
    [kind |-> "ln", num |-> cur \div GCD(cur, prev), den |-> prev \div GCD(cur, prev)]

\* C4: for every admissible price sequence of N >= 2 points the constructed
\* return sequence has exactly N-1 elements, element t-1 being
\* ln(price[t]/price[t-1]) dated with the date of price[t]; nothing is dropped.
C4_ReturnsLengthAndValues ==
    (ctor = "ok" /\ Len(data) >= 2 /\ Admissible(data)) =>
        /\ Len(log_returns) = Len(data) - 1
        /\ \A t \in 2..Len(data) :
              /\ log_returns[t - 1].date = data[t].date
              /\ log_returns[t - 1].value = ExpectedReturn(data[t].price, data[t - 1].price)

C4_Witness ==
    /\ ctor = "ok" /\ Len(data) = 3 /\ Admissible(data)
    /\ data[1].price # data[2].price /\ data[2].price # data[3].price
    /\ Len(log_returns) = 2

\* C5: constructing from fewer than 2 price points fails with
\* InsufficientDataError instead of silently giving an empty return sequence.
C5_ShortSeriesRejected ==
    (ctor # "new" /\ Len(data) < 2) => ctor = "InsufficientDataError"

\* C8: the event-indicator vector is as long as the return sequence and its
\* entry i is 1 exactly when some catalogued event is dated like return i;
\* events dated otherwise (the first price's date included) set no entry.
C8_EventIndicators ==
    indicators_made =>
        /\ Len(event_indicators) = Len(log_returns)
        /\ \A i \in 1..Len(log_returns) :
              /\ event_indicators[i] \in {0, 1}
              /\ event_indicators[i] = 1 <=>
                    \E j \in 1..Len(events) : events[j].date = log_returns[i].date

C8_Witness ==
    /\ indicators_made /\ Len(data) = 3 /\ Len(log_returns) = 2
    /\ \E j \in 1..Len(events) : events[j].date = data[1].date
    /\ \E j \in 1..Len(events) : events[j].date = data[3].date
    /\ event_indicators = <<0, 1>>

(***************************************************************************)
(* The model builders: single_change_point_model, event_correlated_model.  *)
(* The location prior is pm.Uniform(lower=0.1, upper=0.9); its draws are   *)
(* taken in twentieths, fine enough to reach every location of a sequence  *)
(* shorter than 20.  A builder is a pure function of the object: one call  *)
(* per behaviour shows every model it can build.                           *)
(***************************************************************************)
PriorLower == 2     \* lower=0.1, in twentieths

PriorUpper == 18    \* upper=0.9, in twentieths

\* a prior on the whole unit interval, as a builder without the margins would use
PriorSupportUnit == 0..20

PriorSupport == PriorLower..PriorUpper

\* (changepoint_prior * n_data).astype(int): truncation of a non-negative product
Location(u, n) == (u * n) \div 20

PossibleLocations(n) == {Location(u, n) : u \in PriorSupport}

\* counts the change points equal to idx instead of those at or before it
GetSegmentIndicesEq(cps, n) ==
    [i \in 1..n |-> Cardinality({j \in 1..Len(cps) : (i - 1) = cps[j]})]

\* counts the leading change points at or before idx, as for a sorted vector
GetSegmentIndicesSorted(cps, n) ==
    [i \in 1..n |->
        Cardinality({j \in 1..Len(cps) : \A l \in 1..j : (i - 1) >= cps[l]})]

\* _get_segment_indices: pt.sum(idxs[None, :] >= changepoints[:, None], axis=0)
GetSegmentIndices(cps, n) ==
    [i \in 1..n |-> Cardinality({j \in 1..Len(cps) : (i - 1) >= cps[j]})]

\* (np.arange(n_data) >= changepoint).astype(int)
StepSegment(cp, n) == [i \in 1..n |-> IF (i - 1) >= cp THEN 1 ELSE 0]

SingleChangePointModel ==
    \E k \in 1..MaxCp : \E prior \in [1..k -> PriorSupport] :
        /\ variant = "none"
        /\ variant' = "single"
        /\ changepoint_prior' = prior
        /\ changepoints' = [j \in 1..k |-> Location(prior[j], n_data)]
        /\ segment_idx' = GetSegmentIndices(changepoints', n_data)
        /\ n_params' = k + 1
        /\ UNCHANGED <<n_data, periods>>
        /\ UNCHANGED <<objVars, apiVars, impVars, resVars, loadVars>>

EventCorrelatedModel ==
    \E u \in PriorSupport :
        /\ variant = "none"
        /\ variant' = "event_correlated"
        /\ changepoint_prior' = <<u>>
        /\ changepoints' = <<Location(u, n_data)>>
        /\ segment_idx' = StepSegment(Location(u, n_data), n_data)
        /\ n_params' = 2
        /\ UNCHANGED <<n_data, periods>>
        /\ UNCHANGED <<objVars, apiVars, impVars, resVars, loadVars>>

SegInit ==
    /\ n_data \in 0..MaxN
    /\ variant = "none" /\ changepoint_prior = <<>>
    /\ changepoints = <<>> /\ segment_idx = <<>>
    /\ n_params = 0 /\ periods = <<>>
    /\ ObjIdle /\ ApiIdle /\ ImpIdle /\ ResIdle /\ LoadIdle

SegNext == SingleChangePointModel \/ EventCorrelatedModel

SegSpec == SegInit /\ [][SegNext]_vars

Built == variant \in {"single", "event_correlated"}

\* C6: whatever the order of the k change-point locations, the segment of
\* observation i is at most the segment of observation j whenever i <= j.
C6_SegmentsMonotone ==
    Built =>
        /\ Len(segment_idx) = n_data
        /\ \A i \in 1..n_data : \A j \in i..n_data : segment_idx[i] <= segment_idx[j]

C6_Witness ==
    /\ variant = "single" /\ Len(changepoints) = 2
    /\ changepoints[1] > changepoints[2]
    /\ n_data >= 3 /\ segment_idx[1] = 0 /\ segment_idx[n_data] = 2
    /\ \E i \in 1..n_data : segment_idx[i] = 1

\* C7 as stated: every index of [0, N) is a possible change-point location and
\* no value outside [0, N) is.
C7_WholeRange ==
    (Built /\ n_data >= 1) => PossibleLocations(n_data) = 0..(n_data - 1)

\* C7 as amended: the location is floor(u * N) for a prior draw u of [0.1, 0.9]:
\* every index from floor(N/10) to ceil(9N/10) - 1 is a possible location, none
\* outside floor(N/10)..floor(9N/10) is, and that range lies inside [0, N) for
\* N >= 1 (it is all of [0, N) only while N < 10).
C7_CentralRange ==
    Built =>
        LET lo == n_data \div 10
            hi == (9 * n_data) \div 10
            up == ((9 * n_data + 9) \div 10) - 1
        IN  /\ \A j \in 1..Len(changepoints) : changepoints[j] \in lo..hi
            /\ lo..up \subseteq PossibleLocations(n_data)
            /\ PossibleLocations(n_data) \subseteq lo..hi
            /\ n_data >= 1 => (0 <= lo /\ hi <= n_data - 1)
            /\ n_data >= 10 => 0 \notin PossibleLocations(n_data)
            /\ n_data > 10 => (n_data - 1) \notin PossibleLocations(n_data)

C7_Witness ==
    /\ variant = "single" /\ n_data = 10
    /\ \E j \in 1..Len(changepoints) : changepoints[j] = 1
    /\ \E j \in 1..Len(changepoints) : changepoints[j] = 8

\* the number of change-point locations equal to the observation index i
TiedAt(i) == Cardinality({j \in 1..Len(changepoints) : changepoints[j] = i})

\* C23: for every vector of k locations, sorted or not, with or without equal
\* locations, the segment of observation i is the number of locations <= i;
\* it lies in [0, k], and at an index where several locations coincide it
\* rises by the number of locations there.
C23_SegmentIsCount ==
    (variant = "single") =>
        /\ Len(segment_idx) = n_data
        /\ \A i \in 0..(n_data - 1) :
              /\ segment_idx[i + 1] =
                    Cardinality({j \in 1..Len(changepoints) : changepoints[j] <= i})
              /\ segment_idx[i + 1] \in 0..Len(changepoints)
              /\ segment_idx[i + 1] - (IF i = 0 THEN 0 ELSE segment_idx[i]) = TiedAt(i)

\* Two locations coincide at an index past the first: the segment goes from 0 to 2.
C23_Witness ==
    /\ variant = "single" /\ Len(changepoints) = 2
    /\ changepoints[1] = changepoints[2] /\ changepoints[1] >= 1
    /\ n_data > changepoints[1]
    /\ segment_idx[changepoints[1]] = 0
    /\ segment_idx[changepoints[1] + 1] = 2

(***************************************************************************)
(* The four builders on a constructed object.  A builder first reads the   *)
(* number of log returns; the hierarchical one then splits the price       *)
(* series into decades.  Dates here carry their year: a date is the year   *)
(* times 1000 plus the day of the year.                                    *)
(***************************************************************************)
Date(y, d) == y * 1000 + d

\* self.data.index.year
Year(date) == date \div 1000

\* range(1980, 2030, 10)
Decades == <<1980, 1990, 2000, 2010, 2020>>

\* self.data[index.year >= decade], then [index.year < decade + 10]
InDecade(rows, decade) ==
    LET In(r) == Year(r.date) >= decade /\ Year(r.date) < decade + 10
    IN  SelectSeq(rows, In)

\* every decade's rows, the empty ones included
SplitIntoDecades(rows) == [k \in 1..Len(Decades) |-> InDecade(rows, Decades[k])]

\* _split_into_periods: the rows of each decade that has any
SplitIntoPeriods(rows) ==
    LET NonEmpty(period) == Len(period) > 0
    IN  SelectSeq(SplitIntoDecades(rows), NonEmpty)

\* n_data = len(self.log_returns), the first statement of every builder
LenLogReturns ==
    /\ ctor = "ok"
    /\ variant = "idle"
    /\ n_data' = Len(log_returns)
    /\ variant' = "none"
    /\ UNCHANGED <<changepoint_prior, changepoints, segment_idx, n_params, periods>>
    /\ UNCHANGED <<objVars, apiVars, impVars, resVars, loadVars>>

\* draws of the location prior at its two ends and in its middle
CoarsePrior == {PriorLower, 10, PriorUpper}

\* multiple_change_points_model: max_changepoints prior draws, of which the
\* first n_changepoints give the locations; the segment parameters have
\* max_changepoints + 1 entries
MultipleChangePointsModel ==
    \E max_changepoints \in 1..MaxCp : \E n_changepoints \in 0..max_changepoints :
    \E prior \in [1..max_changepoints -> CoarsePrior] :
        /\ variant = "none"
        /\ variant' = "multiple"
        /\ changepoint_prior' = prior
        /\ changepoints' = [j \in 1..n_changepoints |-> Location(prior[j], n_data)]
        /\ segment_idx' = GetSegmentIndices(changepoints', n_data)
        /\ n_params' = max_changepoints + 1
        /\ UNCHANGED <<n_data, periods>>
        /\ UNCHANGED <<objVars, apiVars, impVars, resVars, loadVars>>

\* hierarchical_model: one global location; period_effects and period_sds
\* have one entry per period and are selected by the 0/1 segment index
HierarchicalModel ==
    \E u \in PriorSupport :
        /\ variant = "none"
        /\ variant' = "hierarchical"
        /\ periods' = SplitIntoPeriods(data)
        /\ changepoint_prior' = <<u>>
        /\ changepoints' = <<Location(u, n_data)>>
        /\ segment_idx' = StepSegment(Location(u, n_data), n_data)
        /\ n_params' = Len(periods')
        /\ UNCHANGED n_data
        /\ UNCHANGED <<objVars, apiVars, impVars, resVars, loadVars>>

\* dates of the price series: around the ends of the 1980s, in the 2020s,
\* and just outside the decades the split knows
BuildDates ==
    {Date(1979, 365), Date(1987, 140), Date(1989, 365), Date(1990, 1),
     Date(2022, 60), Date(2030, 1)}

DatedRows(ds) == [i \in 1..Len(ds) |-> [date |-> ds[i], price |-> IF i % 2 = 1 THEN 1 ELSE MaxPrice]]

BuildInit ==
    /\ \E ds \in SeqsUpTo(BuildDates, MaxLen) :
          /\ \A i \in 1..Len(ds) : \A j \in 1..Len(ds) : (i < j) => (ds[i] < ds[j])
          /\ data = DatedRows(ds)
    /\ events = <<>> /\ log_returns = <<>> /\ ctor = "new"
    /\ event_indicators = <<>> /\ indicators_made = FALSE
    /\ models = EmptyDict /\ traces = EmptyDict /\ results = EmptyDict
    /\ call = NoCall /\ sampler_draws = <<>>
    /\ sampler_stats = NoStats /\ change_point_dates = <<>>
    /\ SegIdle /\ ApiIdle /\ ImpIdle /\ ResIdle /\ LoadIdle

BuildNext ==
    \/ Construct
    \/ LenLogReturns
    \/ SingleChangePointModel
    \/ MultipleChangePointsModel
    \/ EventCorrelatedModel
    \/ HierarchicalModel

BuildSpec == BuildInit /\ [][BuildNext]_vars

\* the number of periods that hold the i-th observation of the series
PeriodsHolding(i) ==
    Cardinality({k \in 1..Len(periods) :
                    \E j \in 1..Len(periods[k]) : periods[k][j] = data[i]})

\* C25: the period split of the hierarchical model is a partition of the
\* price series: every observation, of whatever year, is in exactly one
\* period, and the periods come in ascending calendar order.
C25_PeriodsPartition ==
    (variant = "hierarchical") =>
        /\ \A i \in 1..Len(data) : PeriodsHolding(i) = 1
        /\ Cardinality(UNION {{<<k, j>> : j \in 1..Len(periods[k])} :
                                 k \in 1..Len(periods)}) = Len(data)
        /\ \A k \in 1..Len(periods) : \A l \in 1..Len(periods) :
              (k < l) =>
                  \A a \in 1..Len(periods[k]) : \A b \in 1..Len(periods[l]) :
                      periods[k][a].date < periods[l][b].date

\* C27: in every variant each segment index is a valid index into the
\* parameter arrays it selects from: at most the number of change points in
\* the single model, at most max_changepoints in the multiple model, and
\* below the number of periods in the hierarchical model, also for a series
\* inside one decade.
C27_SegmentIndexInRange ==
    (variant \in {"single", "multiple", "event_correlated", "hierarchical"}) =>
        /\ Len(segment_idx) = n_data
        /\ \A i \in 1..n_data :
              /\ segment_idx[i] \in 0..(n_params - 1)
              /\ (variant = "single") => segment_idx[i] <= Len(changepoints)
              /\ (variant = "multiple") => segment_idx[i] <= Len(changepoint_prior)
              /\ (variant = "hierarchical") =>
                    /\ segment_idx[i] \in {0, 1}
                    /\ segment_idx[i] < Len(periods)

(***************************************************************************)
(* fit_model, analyze_change_points, plot_results on a constructed object. *)
(***************************************************************************)
ModelNames == {"single_change_point", "event_correlated"}

ModelKinds == {"single", "event_correlated", "hierarchical"}

\* the name under which a builder declares its location parameter
PosteriorVar(kind) ==
    CASE kind = "single" -> "changepoints"
      [] kind = "event_correlated" -> "changepoint"
      [] OTHER -> "global_changepoint"

Window == 30       \* observations before and after a change point or event

Tolerance == 30    \* days between a change point and a correlated event

MissingFit == "ValueError: Model not found. Run fit_model first."

Put(d, k, v) == [x \in (DOMAIN d) \cup {k} |-> IF x = k THEN v ELSE d[x]]

RECURSIVE SumSeq(_)
SumSeq(s) == IF s = <<>> THEN 0 ELSE Head(s) + SumSeq(Tail(s))

PriceColumn(rows) == [i \in 1..Len(rows) |-> rows[i].price]

\* Series.mean(): NaN for an empty window
Mean(w) == IF Len(w) = 0 THEN NaN ELSE Rat(SumSeq(w), Len(w))

\* Series.std() (ddof = 1), kept as the variance under the root: NaN below 2 values
Std(w) ==
    IF Len(w) < 2 THEN NaN
    ELSE LET n == Len(w)
             sq == SumSeq([i \in 1..n |-> w[i] * w[i]])
             v == Rat(n * sq - SumSeq(w) * SumSeq(w), n * (n - 1))
         IN  [kind |-> "sqrt", num |-> v.num, den |-> v.den]

\* (post_std - pre_std) / pre_std * 100, kept as the ratio of the variances
RelativeStdChange(post, pre) ==
    IF post.kind = "nan" \/ pre.kind = "nan" THEN NaN
    ELSE IF pre.num = 0 THEN (IF post.num > 0 THEN PosInf ELSE NaN)
    ELSE LET r == Rat(post.num * pre.den, post.den * pre.num)
         IN  [kind |-> "relsqrt", num |-> r.num, den |-> r.den]

\* data.iloc[max(0, idx-30):idx]['price'], idx a 0-based position
PreWindow(rows, idx) == SubSeq(PriceColumn(rows), Max2(0, idx - Window) + 1, idx)

\* data.iloc[idx:min(len(data), idx+30)]['price']
PostWindow(rows, idx) == SubSeq(PriceColumn(rows), idx + 1, Min2(Len(rows), idx + Window))

\* ((post - pre) / pre) * 100
PercentChange(post, pre) == Times100(Divide(Minus(post, pre), pre))

\* lines 286-299: one date per posterior draw of the location parameter
ChangePointDates(trace, rows) ==
    LET cps == IF trace.var \in {"changepoint", "changepoints"} THEN trace.draws ELSE <<>>
        InData(cp) == cp < Len(rows)
        kept == SelectSeq(cps, InData)
    IN  [i \in 1..Len(kept) |-> rows[kept[i] + 1].date]

\* the (change point, event) pairs in the order of the two nested loops
CorrelationPairs(dates, evs) ==
    LET m == Len(evs)
    IN  [p \in 1..(Len(dates) * m) |->
            [cp |-> dates[((p - 1) \div m) + 1], ev |-> evs[((p - 1) % m) + 1]]]

WithinTolerance(pair) == Abs(pair.cp - pair.ev.date) <= Tolerance

CorrelationEntry(pair, rows) ==
    LET idx == GetLoc(pair.ev.date, IndexOf(rows))
    IN  [change_point_date |-> pair.cp,
         event_date |-> pair.ev.date,
         distance_days |-> Abs(pair.cp - pair.ev.date),
         event_impact |-> PercentChange(Mean(PostWindow(rows, idx)), Mean(PreWindow(rows, idx)))]

\* _find_event_correlations: get_loc raises KeyError for an event near a change
\* point whose date is not in the price index
FindEventCorrelations(dates, rows, evs) ==
    LET near == SelectSeq(CorrelationPairs(dates, evs), WithinTolerance)
    IN  IF \E k \in 1..Len(near) : ~InIndex(near[k].ev.date, IndexOf(rows))
        THEN [raised |-> TRUE, list |-> <<>>]
        ELSE [raised |-> FALSE,
              list |-> [k \in 1..Len(near) |-> CorrelationEntry(near[k], rows)]]

ImpactEntry(cp_date, rows) ==
    LET idx == GetLoc(cp_date, IndexOf(rows))
        pre == PreWindow(rows, idx)
        post == PostWindow(rows, idx)
    IN  [change_point_date |-> cp_date,
         price_change |-> PercentChange(Mean(post), Mean(pre)),
         volatility_change |-> RelativeStdChange(Std(post), Std(pre)),
         pre_mean |-> Mean(pre), post_mean |-> Mean(post),
         pre_std |-> Std(pre), post_std |-> Std(post)]

\* _compute_impact_measures: an entry only where both windows are non-empty
ComputeImpactMeasures(dates, rows) ==
    LET BothWindows(d) ==
            /\ Len(PreWindow(rows, GetLoc(d, IndexOf(rows)))) > 0
            /\ Len(PostWindow(rows, GetLoc(d, IndexOf(rows)))) > 0
        kept == SelectSeq(dates, BothWindows)
    IN  [k \in 1..Len(kept) |-> ImpactEntry(kept[k], rows)]

\* the guard lets any name through once some model has been fitted
HasResultsOfAny(name) == DOMAIN results # {}

\* model_name in self.results
HasResults(name) == name \in DOMAIN results

\* what analyze_change_points(name) returns or raises
Analysis(name) ==
    IF ~HasResults(name)
    THEN [NoCall EXCEPT !.outcome = MissingFit]
    ELSE IF name \notin DOMAIN traces
    THEN [NoCall EXCEPT !.outcome = "KeyError"]
    ELSE LET dates == ChangePointDates(traces[name], data)
             corr == FindEventCorrelations(dates, data, events)
         IN  IF corr.raised
             THEN [NoCall EXCEPT !.outcome = "KeyError"]
             ELSE [NoCall EXCEPT !.outcome = "ok",
                                 !.change_points = dates,
                                 !.event_correlations = corr.list,
                                 !.impact_analysis = ComputeImpactMeasures(dates, data),
                                 !.model_diagnostics = results[name].diagnostics]

\* a fit that enters the model under its name before it samples
FitModelStoresFirst ==
    \E name \in ModelNames : \E kind \in ModelKinds :
        /\ ctor = "ok"
        /\ models' = Put(models, name, kind)
        /\ \/ /\ call' = [NoCall EXCEPT !.op = "fit_model", !.name = name,
                                        !.outcome = "raised"]
              /\ UNCHANGED <<traces, results>>
           \/ LET trace == [var |-> PosteriorVar(kind), draws |-> sampler_draws,
                            stats |-> sampler_stats]
              IN  /\ traces' = Put(traces, name, trace)
                  /\ results' = Put(results, name,
                                    [diagnostics |-> ComputeDiagnostics(trace.stats),
                                     trace |-> trace])
                  /\ call' = [NoCall EXCEPT !.op = "fit_model", !.name = name,
                                            !.outcome = "ok"]
        /\ UNCHANGED <<data, events, log_returns, ctor, event_indicators,
                       indicators_made, sampler_draws, sampler_stats,
                       change_point_dates>>
        /\ UNCHANGED <<segVars, apiVars, impVars, resVars, loadVars>>

\* fit_model: pm.sample or the diagnostics may raise, and then nothing is stored
FitModel ==
    \E name \in ModelNames : \E kind \in ModelKinds :
        /\ ctor = "ok"
        /\ \/ /\ call' = [NoCall EXCEPT !.op = "fit_model", !.name = name,
                                        !.outcome = "raised"]
              /\ UNCHANGED <<models, traces, results>>
           \/ LET trace == [var |-> PosteriorVar(kind), draws |-> sampler_draws,
                            stats |-> sampler_stats]
              IN  /\ models' = Put(models, name, kind)
                  /\ traces' = Put(traces, name, trace)
                  /\ results' = Put(results, name,
                                    [diagnostics |-> ComputeDiagnostics(trace.stats),
                                     trace |-> trace])
                  /\ call' = [NoCall EXCEPT !.op = "fit_model", !.name = name,
                                            !.outcome = "ok"]
        /\ UNCHANGED <<data, events, log_returns, ctor, event_indicators,
                       indicators_made, sampler_draws, sampler_stats,
                   change_point_dates>>
        /\ UNCHANGED <<segVars, apiVars, impVars, resVars, loadVars>>

AnalyzeChangePoints ==
    \E name \in ModelNames :
        /\ ctor = "ok"
        /\ call' = [Analysis(name) EXCEPT !.op = "analyze_change_points", !.name = name]
        /\ UNCHANGED <<data, events, log_returns, ctor, event_indicators,
                       indicators_made, models, traces, results, sampler_draws, sampler_stats,
                   change_point_dates>>
        /\ UNCHANGED <<segVars, apiVars, impVars, resVars, loadVars>>

\* plot_results: its own guard, then analyze_change_points, then the figure
PlotResults ==
    \E name \in ModelNames :
        /\ ctor = "ok"
        /\ call' = [NoCall EXCEPT !.op = "plot_results", !.name = name,
                                  !.outcome = IF ~HasResults(name) THEN MissingFit
                                              ELSE Analysis(name).outcome]
        /\ UNCHANGED <<data, events, log_returns, ctor, event_indicators,
                       indicators_made, models, traces, results, sampler_draws, sampler_stats,
                   change_point_dates>>
        /\ UNCHANGED <<segVars, apiVars, impVars, resVars, loadVars>>

\* the object's inputs: a short price series, at most one catalogued event
\* (on the first trading day, on a non-trading day, or far away), and the
\* draws the sampler will return for the location parameter
\* what the backend can report: a run just under and one exactly at a scale
\* reduction of 1.1, and a run that did not converge
SamplerStats ==
    {[r_hat |-> <<1099999, 1099999>>, ess |-> <<400, 400>>, diverging |-> 0],
     [r_hat |-> <<1000000, 1100000>>, ess |-> <<400, 100>>, diverging |-> 0],
     [r_hat |-> <<1500000, 1000000>>, ess |-> <<3, 400>>, diverging |-> 2]}

PipePrice(i) == IF i % 2 = 1 THEN 1 ELSE MaxPrice

PipeEventDates == {1, 3, 40}

PipeInit ==
    /\ \E n \in 1..MaxLen :
          /\ data = PriceRows([i \in 1..n |-> PipePrice(i)])
          /\ \E k \in 1..MaxDraws :
                sampler_draws \in [1..k -> PossibleLocations(n - 1)]
    /\ \E ds \in SeqsUpTo(PipeEventDates, 1) : events = EventRows(ds)
    /\ sampler_stats \in SamplerStats /\ change_point_dates = <<>>
    /\ log_returns = <<>> /\ ctor = "new"
    /\ event_indicators = <<>> /\ indicators_made = FALSE
    /\ models = EmptyDict /\ traces = EmptyDict /\ results = EmptyDict
    /\ call = NoCall
    /\ SegIdle /\ ApiIdle /\ ImpIdle /\ ResIdle /\ LoadIdle

PipeNext == Construct \/ FitModel \/ AnalyzeChangePoints \/ PlotResults

PipeSpec == PipeInit /\ [][PipeNext]_vars

(***************************************************************************)
(* Claims about the fitted-model pipeline.                                 *)
(***************************************************************************)
\* C1: in every call order, analyze_change_points(m) and plot_results(m) fail
\* with the error naming fit_model exactly when fit_model has not yet succeeded
\* for that same name m; a call failing this way leaves models, traces and
\* results unchanged; and a name once fitted stays fitted.
C1_FitBeforeAnalyze ==
    [][\A m \in ModelNames :
          /\ (call'.op \in {"analyze_change_points", "plot_results"} /\ call'.name = m) =>
                IF m \in DOMAIN results
                THEN call'.outcome # MissingFit
                ELSE /\ call'.outcome = MissingFit
                     /\ UNCHANGED <<models, traces, results>>
          /\ (m \in DOMAIN results) => (m \in DOMAIN results')
          /\ (call'.op = "fit_model" /\ call'.name = m /\ call'.outcome = "ok") =>
                (m \in DOMAIN results')]_vars

C1_Witness ==
    /\ call.op = "plot_results" /\ call.name = "event_correlated"
    /\ call.outcome = MissingFit
    /\ DOMAIN results = {"single_change_point"}
    /\ DOMAIN traces = {"single_change_point"}

\* the k-th smallest of a non-empty sequence of draws
KthSmallest(draws, k) ==
    CHOOSE v \in {draws[i] : i \in 1..Len(draws)} :
        /\ Cardinality({i \in 1..Len(draws) : draws[i] <= v}) >= k
        /\ Cardinality({i \in 1..Len(draws) : draws[i] < v}) < k

\* the median of a non-empty sequence of draws, rounded half up
MedianIndex(draws) ==
    LET n == Len(draws)
    IN  IF n % 2 = 1 THEN KthSmallest(draws, (n + 1) \div 2)
        ELSE (KthSmallest(draws, n \div 2) + KthSmallest(draws, (n \div 2) + 1) + 1) \div 2

\* C9: reducing the posterior of a fitted model gives exactly one change point,
\* the one at the median of all location draws (clamped to the sequence); the
\* number of reported change points does not grow with the number of draws.
C9_OneEstimateAtMedian ==
    \A m \in ModelNames :
        (/\ call.op = "analyze_change_points" /\ call.name = m /\ call.outcome = "ok"
         /\ m \in DOMAIN traces
         /\ traces[m].var \in {"changepoint", "changepoints"}
         /\ Len(log_returns) >= 1) =>
            /\ Len(call.change_points) = 1
            /\ call.change_points[1] =
                  data[Min2(Max2(MedianIndex(traces[m].draws), 0),
                            Len(log_returns) - 1) + 1].date

\* C10: for a change point at index 0 the impact computation does not throw and
\* its result for that change point is present, with the empty "before" window
\* flagged as insufficient data (undefined statistics), not left out.
C10_IndexZeroReported ==
    (/\ call.op = "analyze_change_points" /\ call.outcome = "ok"
     /\ Len(log_returns) >= 1
     /\ \E i \in 1..Len(call.change_points) : call.change_points[i] = data[1].date) =>
        \E k \in 1..Len(call.impact_analysis) :
            /\ call.impact_analysis[k].change_point_date = data[1].date
            /\ call.impact_analysis[k].pre_mean = NaN

\* C12: once fit_model(m) has completed, analyze_change_points(m) returns a
\* result whatever the diagnostics of the fit are (any r_hat, effective sample
\* size or divergence count), and that result carries the diagnostics.
C12_AnalysisNeverBlocked ==
    \A m \in ModelNames :
        (/\ call.op = "analyze_change_points" /\ call.name = m
         /\ m \in DOMAIN results) =>
            /\ call.outcome = "ok"
            /\ call.model_diagnostics = results[m].diagnostics

\* C13: the diagnostics of a fit hold one boolean 'converged', true exactly
\* when the potential scale reduction of every parameter is strictly below 1.1
\* (1.1 itself is not converged, 1.099999 is).
C13_ConvergedFlag ==
    \A m \in DOMAIN results :
        /\ "converged" \in DOMAIN results[m].diagnostics
        /\ results[m].diagnostics.converged =
              (\A i \in 1..Len(results[m].diagnostics.r_hat) :
                    results[m].diagnostics.r_hat[i] < 1100000)

\* C26: after any sequence of fit_model calls models, traces and results
\* have the same keys; a fit whose sampling or diagnostics raises leaves the
\* three unchanged; a fit under a name replaces the three entries of that
\* name and those of no other name.
C26_DictsInStep ==
    [][/\ DOMAIN models' = DOMAIN traces'
       /\ DOMAIN traces' = DOMAIN results'
       /\ (call'.op = "fit_model" /\ call'.outcome = "raised") =>
             UNCHANGED <<models, traces, results>>
       /\ (call'.op = "fit_model" /\ call'.outcome = "ok") =>
             /\ call'.name \in DOMAIN results'
             /\ results'[call'.name].trace = traces'[call'.name]
             /\ traces'[call'.name].var = PosteriorVar(models'[call'.name])
             /\ \A m \in ModelNames \ {call'.name} :
                   /\ (m \in DOMAIN results') <=> (m \in DOMAIN results)
                   /\ (m \in DOMAIN results) =>
                         /\ models'[m] = models[m]
                         /\ traces'[m] = traces[m]
                         /\ results'[m] = results[m]]_vars

\* A fit has failed on an object that holds two fitted models.
C26_Witness ==
    /\ call.op = "fit_model" /\ call.outcome = "raised"
    /\ DOMAIN results = ModelNames
    /\ models["single_change_point"] # models["event_correlated"]

\* C24: the date reported for a location index i is the date of the i-th
\* return, which is the date of price i + 1; the location is not looked up
\* in the price sequence, which is one element longer.
C24_DateOfReturn ==
    \A m \in ModelNames :
        (/\ call.op = "analyze_change_points" /\ call.name = m /\ call.outcome = "ok"
         /\ m \in DOMAIN traces
         /\ traces[m].var \in {"changepoint", "changepoints"}
         /\ \A i \in 1..Len(traces[m].draws) : traces[m].draws[i] < Len(log_returns)) =>
            /\ Len(call.change_points) = Len(traces[m].draws)
            /\ \A i \in 1..Len(traces[m].draws) :
                  /\ call.change_points[i] = log_returns[traces[m].draws[i] + 1].date
                  /\ call.change_points[i] = data[traces[m].draws[i] + 2].date

(***************************************************************************)
(* _find_event_correlations on its own: a constructed object is handed a   *)
(* list of change-point dates.  The price index here has a gap of a month, *)
(* so that two of its dates can be exactly 30 or 31 days apart.            *)
(***************************************************************************)
SparseDay(i) == IF i <= 2 THEN i ELSE i + 28

SparseRows(ps) == [i \in 1..Len(ps) |-> [date |-> SparseDay(i), price |-> ps[i]]]

\* catalogued dates: dates of the index, one between them, one after them
CorrEventDates == {1, 2, 10, 31, 32}

FindEventCorrelationsCall ==
    /\ ctor = "ok"
    /\ call.op = "none"
    /\ LET corr == FindEventCorrelations(change_point_dates, data, events)
       IN  call' = [NoCall EXCEPT !.op = "_find_event_correlations",
                                  !.outcome = IF corr.raised THEN "KeyError" ELSE "ok",
                                  !.change_points = change_point_dates,
                                  !.event_correlations = corr.list]
    /\ UNCHANGED <<data, events, log_returns, ctor, event_indicators,
                   indicators_made, models, traces, results, sampler_draws,
                   sampler_stats, change_point_dates>>
    /\ UNCHANGED <<segVars, apiVars, impVars, resVars, loadVars>>

CorrInit ==
    /\ \E n \in 1..MaxLen :
          /\ data = SparseRows([i \in 1..n |-> PipePrice(i)])
          /\ change_point_dates \in SeqsUpTo({SparseDay(i) : i \in 1..n}, MaxCp)
    /\ \E ds \in SeqsUpTo(CorrEventDates, MaxEvents) : events = EventRows(ds)
    /\ log_returns = <<>> /\ ctor = "new"
    /\ event_indicators = <<>> /\ indicators_made = FALSE
    /\ models = EmptyDict /\ traces = EmptyDict /\ results = EmptyDict
    /\ call = NoCall /\ sampler_draws = <<>> /\ sampler_stats = NoStats
    /\ SegIdle /\ ApiIdle /\ ImpIdle /\ ResIdle /\ LoadIdle

CorrNext == Construct \/ FindEventCorrelationsCall

CorrSpec == CorrInit /\ [][CorrNext]_vars

\* the correlator has been called
Correlated == call.op = "_find_event_correlations"

\* C14: a (change point, event) pair is in the correlator's output exactly
\* when the two dates are at most 30 days apart; its distance is the same
\* non-negative number of days whichever date is subtracted from the other.
C14_PairsWithinTolerance ==
    Correlated =>
        /\ \A i \in 1..Len(change_point_dates) : \A j \in 1..Len(events) :
              LET cp == change_point_dates[i]
                  ev == events[j].date
              IN  (Abs(cp - ev) <= 30) <=>
                    \E k \in 1..Len(call.event_correlations) :
                        /\ call.event_correlations[k].change_point_date = cp
                        /\ call.event_correlations[k].event_date = ev
        /\ \A k \in 1..Len(call.event_correlations) :
              LET c == call.event_correlations[k]
              IN  /\ c.distance_days >= 0
                  /\ c.distance_days = Abs(c.change_point_date - c.event_date)
                  /\ c.distance_days = Abs(c.event_date - c.change_point_date)

\* C15: the correlations come sorted by descending strength 1/(1 + distance),
\* that is by ascending distance, and by ascending event date among entries
\* of equal strength.
C15_SortedByStrength ==
    Correlated =>
        \A k \in 1..(Len(call.event_correlations) - 1) :
            LET a == call.event_correlations[k]
                b == call.event_correlations[k + 1]
            IN  \/ a.distance_days < b.distance_days
                \/ /\ a.distance_days = b.distance_days
                   /\ a.event_date <= b.event_date

\* C28: _find_event_correlations returns for every list of change-point dates
\* and every catalogue: an event within 30 days of a change point whose date
\* is no date of the price series, or is its first date, gives an entry or is
\* skipped, and nothing is raised.
C28_CorrelatorCompletes ==
    Correlated =>
        /\ call.outcome \notin {"KeyError", "raised"}
        /\ \A k \in 1..Len(call.event_correlations) :
              Abs(call.event_correlations[k].change_point_date
                  - call.event_correlations[k].event_date) <= Tolerance

(***************************************************************************)
(* The ImpactAnalysis object (impact_analysis.py): its constructor is the  *)
(* one above; each of its methods reads data, events and log_returns and   *)
(* returns a dictionary or raises.  No method changes the object, so one   *)
(* call per behaviour shows all a method can do.                           *)
(***************************************************************************)
\* data.iloc[max(0, idx - w):idx]['price']
EventPreWindow(rows, idx, w) == SubSeq(PriceColumn(rows), Max2(0, idx - w) + 1, idx)

\* data.iloc[idx:idx + w]['price'] without the observation of the event itself
EventPostWindowAfter(rows, idx, w) ==
    SubSeq(PriceColumn(rows), idx + 2, Min2(Len(rows), idx + w))

\* data.iloc[idx:min(len(data), idx + w)]['price']
EventPostWindow(rows, idx, w) ==
    SubSeq(PriceColumn(rows), idx + 1, Min2(Len(rows), idx + w))

\* the events event_study_analysis and cumulative_impact_analysis report on:
\* those dated in the price index whose two windows are both non-empty
AnalysedEvents(rows, evs, w) ==
    LET Analysed(ev) ==
            /\ InIndex(ev.date, IndexOf(rows))
            /\ Len(EventPreWindow(rows, GetLoc(ev.date, IndexOf(rows)), w)) > 0
            /\ Len(EventPostWindow(rows, GetLoc(ev.date, IndexOf(rows)), w)) > 0
    IN  SelectSeq(evs, Analysed)

IsConstant(w) == \A i \in 1..Len(w) : w[i] = w[1]

\* scipy's ttest_ind(pre, post), as far as the p-value matters: NaN when a
\* sample has a single value (its variance is 0/0) or when both samples are
\* constant with the same mean (t = 0/0); 0 when both are constant with
\* different means (t is infinite); otherwise a number on either side of 0.05.
TTestPValues(pre, post) ==
    IF Len(pre) < 2 \/ Len(post) < 2 THEN {"nan"}
    ELSE IF IsConstant(pre) /\ IsConstant(post)
    THEN (IF pre[1] = post[1] THEN {"nan"} ELSE {"zero"})
    ELSE {"below_0.05", "above_0.05"}

\* p_value < 0.05
IsSignificant(p) == p \in {"zero", "below_0.05"}

EventStudyEntry(ev, rows, w, p) ==
    LET idx == GetLoc(ev.date, IndexOf(rows))
        pre == EventPreWindow(rows, idx, w)
        post == EventPostWindow(rows, idx, w)
    IN  [event_date |-> ev.date,
         pre_mean |-> Mean(pre),
         post_mean |-> Mean(post),
         price_change_pct |-> PercentChange(Mean(post), Mean(pre)),
         pre_volatility |-> Std(pre),
         post_volatility |-> Std(post),
         volatility_change_pct |-> RelativeStdChange(Std(post), Std(pre)),
         p_value |-> p,
         significant |-> IsSignificant(p)]

\* the p-values ttest_ind can give for the analysed events, one per event
EventPValues(rows, evs, w) ==
    LET an == AnalysedEvents(rows, evs, w)
    IN  {ps \in [1..Len(an) -> {"nan", "zero", "below_0.05", "above_0.05"}] :
            \A k \in 1..Len(an) :
                LET idx == GetLoc(an[k].date, IndexOf(rows))
                IN  ps[k] \in TTestPValues(EventPreWindow(rows, idx, w),
                                           EventPostWindow(rows, idx, w))}

EventStudyResults(rows, evs, w, ps) ==
    LET an == AnalysedEvents(rows, evs, w)
    IN  [k \in 1..Len(an) |-> EventStudyEntry(an[k], rows, w, ps[k])]

\* the summary computed without the test for an empty list
ComputeSummaryStatsOfAny(res) ==
    [significant_events |-> Cardinality({k \in 1..Len(res) : res[k].significant}),
     total_events |-> Len(res)]

\* _compute_summary_stats, its two counts: {} for no results
ComputeSummaryStats(res) ==
    IF res = <<>> THEN EmptyDict
    ELSE [significant_events |-> Cardinality({k \in 1..Len(res) : res[k].significant}),
          total_events |-> Len(res)]

EventStudyAnalysis ==
    /\ ctor = "ok"
    /\ impact.op = "none"
    /\ \E ps \in EventPValues(data, events, event_window) :
          LET res == EventStudyResults(data, events, event_window, ps)
          IN  impact' = [NoImpact EXCEPT !.op = "event_study_analysis",
                                        !.outcome = "ok",
                                        !.results = res,
                                        !.summary = ComputeSummaryStats(res)]
    /\ UNCHANGED <<objVars, segVars, apiVars, event_window, resVars, loadVars>>

\* a < b on float64 values: false as soon as one of them is NaN
Less(a, b) ==
    IF a.kind = "nan" \/ b.kind = "nan" THEN FALSE
    ELSE IF a.kind = "-inf" THEN b.kind # "-inf"
    ELSE IF a.kind = "inf" THEN FALSE
    ELSE IF b.kind = "inf" THEN TRUE
    ELSE IF b.kind = "-inf" THEN FALSE
    ELSE a.num * b.den < b.num * a.den

\* Python's max(list): the running maximum is replaced by an item greater than it
RECURSIVE PyMax(_, _)
PyMax(cur, xs) ==
    IF xs = <<>> THEN cur
    ELSE PyMax(IF Less(cur, Head(xs)) THEN Head(xs) ELSE cur, Tail(xs))

\* Python's min(list)
RECURSIVE PyMin(_, _)
PyMin(cur, xs) ==
    IF xs = <<>> THEN cur
    ELSE PyMin(IF Less(Head(xs), cur) THEN Head(xs) ELSE cur, Tail(xs))

\* a - b on float64 values, infinities included
Sub(a, b) ==
    IF a.kind = "nan" \/ b.kind = "nan" THEN NaN
    ELSE IF a.kind = "num" /\ b.kind = "num" THEN Minus(a, b)
    ELSE IF a.kind = b.kind THEN NaN
    ELSE IF a.kind = "inf" \/ b.kind = "-inf" THEN PosInf
    ELSE NegInf

\* the base of the cumulative changes taken from the first price of the
\* post-event window instead of the last price before the event
BasePriceOfEventDay(rows, idx, w) == EventPostWindow(rows, idx, w)[1]

\* base_price = pre_prices.iloc[-1]
BasePrice(rows, idx, w) ==
    LET pre == EventPreWindow(rows, idx, w) IN pre[Len(pre)]

CumulativeEntry(ev, rows, w) ==
    LET idx == GetLoc(ev.date, IndexOf(rows))
        post == EventPostWindow(rows, idx, w)
        base == Num(BasePrice(rows, idx, w))
        changes == [j \in 1..Len(post) |-> PercentChange(Num(post[j]), base)]
        hi == PyMax(changes[1], Tail(changes))
        lo == PyMin(changes[1], Tail(changes))
    IN  [event_date |-> ev.date,
         max_impact |-> hi,
         min_impact |-> lo,
         final_impact |-> changes[Len(changes)],
         impact_range |-> Sub(hi, lo),
         cumulative_changes |-> changes]

CumulativeImpactAnalysis ==
    /\ ctor = "ok"
    /\ impact.op = "none"
    /\ LET an == AnalysedEvents(data, events, event_window)
           res == [k \in 1..Len(an) |-> CumulativeEntry(an[k], data, event_window)]
       IN  impact' = [NoImpact EXCEPT !.op = "cumulative_impact_analysis",
                                     !.outcome = "ok",
                                     !.results = res]
    /\ UNCHANGED <<objVars, segVars, apiVars, event_window, resVars, loadVars>>

\* the determinant of X^T X for the design matrix [1, event indicator, time]
DetXtX(ind) ==
    LET n == Len(ind)
        se == SumSeq(ind)
        st == SumSeq([i \in 1..n |-> i - 1])
        et == SumSeq([i \in 1..n |-> ind[i] * (i - 1)])
        tt == SumSeq([i \in 1..n |-> (i - 1) * (i - 1)])
    IN  n * (se * tt - et * et) - se * (se * tt - et * st) + st * (se * et - se * st)

\* np.linalg.inv(X.T @ X): LinAlgError for a singular matrix.  A column of
\* zeros gives an exact zero pivot; another singular matrix is caught only if
\* the elimination's rounding leaves the pivot at exactly zero.
InvOutcomes(ind) ==
    IF DetXtX(ind) # 0 THEN {"ok"}
    ELSE IF SumSeq(ind) = 0 THEN {"LinAlgError"}
    ELSE {"LinAlgError", "ok"}

\* regression_analysis: least squares, the residual variance ss_res / (n - p),
\* then the inverse of X^T X, in this order and with no check before either
RegressionAnalysis ==
    /\ ctor = "ok"
    /\ impact.op = "none"
    /\ \E outcome \in InvOutcomes(CreateEventIndicators(data, log_returns, events)) :
          impact' = [NoImpact EXCEPT !.op = "regression_analysis",
                                    !.outcome = outcome,
                                    !.steps = <<"lstsq", "ss_res / (n - p)", "inv">>]
    /\ UNCHANGED <<objVars, segVars, apiVars, event_window, resVars, loadVars>>

IsZeroChange(x) ==
    \/ x.kind = "num" /\ x.num = 0
    \/ x.kind = "relsqrt" /\ x.num = x.den

IsFiniteChange(x) == x.kind \in {"num", "relsqrt"}

IsPositiveChange(x) ==
    \/ x.kind = "num" /\ x.num > 0
    \/ x.kind = "relsqrt" /\ x.num > x.den

\* stats.wilcoxon(xs): with every difference zero it raises ValueError in the
\* SciPy releases that reject such input and returns NaN in the others
WilcoxonOutcomes(xs) ==
    IF \A i \in 1..Len(xs) : IsZeroChange(xs[i]) THEN {"ValueError", "nan"}
    ELSE IF \E i \in 1..Len(xs) : xs[i].kind = "nan" THEN {"nan"}
    ELSE {"value"}

\* stats.normaltest(xs): below 8 samples it raises ValueError in the SciPy
\* releases that reject such input and returns NaN in the others
NormalTestOutcomes(xs) == IF Len(xs) < 8 THEN {"ValueError", "nan"} ELSE {"value"}

\* np.mean(xs) / np.std(xs): 0/0 or x/0 when all changes are equal
CohenD(xs) ==
    IF \E i \in 1..Len(xs) : ~IsFiniteChange(xs[i]) THEN NaN
    ELSE IF \A i \in 1..Len(xs) : xs[i] = xs[1]
    THEN (IF IsZeroChange(xs[1]) THEN NaN
          ELSE IF IsPositiveChange(xs[1]) THEN PosInf ELSE NegInf)
    ELSE [kind |-> "value", num |-> 0, den |-> 0]

\* the per-event changes of self.event_study_analysis() with its default window
StudyChanges(rows, evs, key) ==
    LET ps == CHOOSE f \in EventPValues(rows, evs, Window) : TRUE
        res == EventStudyResults(rows, evs, Window, ps)
    IN  [k \in 1..Len(res) |-> res[k][key]]

ImpactTests(xs, wilcoxon, normality) ==
    [wilcoxon_statistic |-> wilcoxon, normality_p_value |-> normality,
     cohen_d |-> CohenD(xs)]

StatisticalSignificanceTesting ==
    /\ ctor = "ok"
    /\ impact.op = "none"
    /\ LET price_changes == StudyChanges(data, events, "price_change_pct")
           volatility_changes == StudyChanges(data, events, "volatility_change_pct")
       IN  IF price_changes = <<>>
           THEN impact' = [NoImpact EXCEPT
                              !.op = "statistical_significance_testing",
                              !.outcome = "ok",
                              !.results = <<[error |-> "No events found for analysis"]>>]
           ELSE \E wp \in WilcoxonOutcomes(price_changes) :
                \E wv \in WilcoxonOutcomes(volatility_changes) :
                \E np \in NormalTestOutcomes(price_changes) :
                \E nv \in NormalTestOutcomes(volatility_changes) :
                    IF "ValueError" \in {wp, wv, np, nv}
                    THEN impact' = [NoImpact EXCEPT
                                       !.op = "statistical_significance_testing",
                                       !.outcome = "ValueError",
                                       !.steps = <<"ttest_1samp">>]
                    ELSE impact' = [NoImpact EXCEPT
                                       !.op = "statistical_significance_testing",
                                       !.outcome = "ok",
                                       !.steps = <<"ttest_1samp">>,
                                       !.results =
                                          <<[price_impact_tests |->
                                                ImpactTests(price_changes, wp, np),
                                             volatility_impact_tests |->
                                                ImpactTests(volatility_changes, wv, nv)]>>]
    /\ UNCHANGED <<objVars, segVars, apiVars, event_window, resVars, loadVars>>

\* The object's inputs: a short series of prices (0 is a value the
\* constructor accepts) with an event catalogue over trading and non-trading
\* days, or the six prices of the worked example with an event on the fourth.
ImpPrices == {0, 1, MaxPrice}

ImpEventDates == {1, 2, 3, 5}

ExamplePrices == <<100, 100, 100, 120, 120, 120>>

EventWindows == {1, Window}

ImpInit ==
    /\ \/ /\ \E ps \in SeqsUpTo(ImpPrices, MaxLen) : data = PriceRows(ps)
          /\ \E ds \in SeqsUpTo(ImpEventDates, MaxEvents) : events = EventRows(ds)
       \/ /\ data = PriceRows(ExamplePrices)
          /\ events = EventRows(<<TradingDay(4)>>)
    /\ event_window \in EventWindows
    /\ impact = NoImpact
    /\ log_returns = <<>> /\ ctor = "new"
    /\ event_indicators = <<>> /\ indicators_made = FALSE
    /\ models = EmptyDict /\ traces = EmptyDict /\ results = EmptyDict
    /\ call = NoCall /\ sampler_draws = <<>>
    /\ sampler_stats = NoStats /\ change_point_dates = <<>>
    /\ SegIdle /\ ApiIdle /\ ResIdle /\ LoadIdle

ImpNext ==
    \/ Construct
    \/ EventStudyAnalysis
    \/ RegressionAnalysis
    \/ CumulativeImpactAnalysis
    \/ StatisticalSignificanceTesting

ImpSpec == ImpInit /\ [][ImpNext]_vars

(***************************************************************************)
(* Claims about the ImpactAnalysis methods.                                *)
(***************************************************************************)
Studied == impact.op = "event_study_analysis"

\* C11: an event-study result has price_change_pct =
\* (after mean - before mean) / before mean * 100, and where the before-window
\* mean price is 0 the result carries an undefined marker in its place, not
\* inf or NaN.
C11_PercentChangeOrUndefined ==
    Studied =>
        \A k \in 1..Len(impact.results) :
            LET r == impact.results[k]
            IN  IF r.pre_mean.num = 0
                THEN r.price_change_pct.kind = "undefined"
                ELSE /\ r.price_change_pct.kind = "num"
                     /\ r.price_change_pct.num * r.pre_mean.num * r.post_mean.den =
                           r.price_change_pct.den * 100 *
                              (r.post_mean.num * r.pre_mean.den
                                 - r.pre_mean.num * r.post_mean.den)

\* C16: event_study_analysis returns one result per catalogued event; an event
\* dated between two trading days is analysed around the nearest one, not
\* left out.
C16_OneResultPerEvent ==
    (/\ Studied
     /\ Admissible(data)
     /\ Len(data) >= 2
     /\ \A j \in 1..Len(events) :
            /\ data[1].date < events[j].date
            /\ events[j].date <= data[Len(data)].date) =>
        Len(impact.results) = Len(events)

\* the sum of the prices of rows a+1 .. b
PriceSum(a, b) == SumSeq([i \in 1..(b - a) |-> data[a + i].price])

\* C17: for an event at index e and window w the pre-window is rows
\* max(0,e-w)..e-1 and the post-window rows e..min(N,e+w)-1; the prices
\* [100,100,100,120,120,120] with the event at index 3 give pre mean 100, post
\* mean 120 and a change of 20 percent; windows without variance raise no
\* error and, their means differing, give significant = True.
C17_EventWindows ==
    Studied =>
        /\ impact.outcome = "ok"
        /\ \A j \in 1..Len(events) :
              InIndex(events[j].date, IndexOf(data)) =>
                LET e == GetLoc(events[j].date, IndexOf(data))
                    lo == Max2(0, e - event_window)
                    hi == Min2(Len(data), e + event_window)
                IN  (lo < e /\ e < hi) =>
                      \E k \in 1..Len(impact.results) :
                          LET r == impact.results[k]
                          IN  /\ r.event_date = events[j].date
                              /\ r.pre_mean = Rat(PriceSum(lo, e), e - lo)
                              /\ r.post_mean = Rat(PriceSum(e, hi), hi - e)
                              /\ (/\ e - lo >= 2 /\ hi - e >= 2
                                  /\ r.pre_volatility.num = 0
                                  /\ r.post_volatility.num = 0
                                  /\ r.pre_mean # r.post_mean) => r.significant
        /\ (data = PriceRows(ExamplePrices) /\ event_window >= 3) =>
              /\ Len(impact.results) = 1
              /\ impact.results[1].event_date = data[4].date
              /\ impact.results[1].pre_mean = Num(100)
              /\ impact.results[1].post_mean = Num(120)
              /\ impact.results[1].price_change_pct = Num(20)
              /\ impact.results[1].significant

C17_Witness ==
    /\ Studied
    /\ data = PriceRows(ExamplePrices)
    /\ event_window = Window
    /\ Len(impact.results) = 1
    /\ impact.results[1].pre_volatility.num = 0
    /\ impact.results[1].price_change_pct = Num(20)
    /\ impact.results[1].significant

\* C18: when X^T X of the design matrix is singular, regression_analysis fails
\* with a singular-matrix error found before the inversion and before the
\* division by the residual degrees of freedom n - p.
C18_SingularDetectedFirst ==
    (/\ impact.op = "regression_analysis"
     /\ Admissible(data) /\ Len(data) >= 2
     /\ DetXtX(CreateEventIndicators(data, log_returns, events)) = 0) =>
        /\ impact.outcome = "LinAlgError"
        /\ \A i \in 1..Len(impact.steps) :
              impact.steps[i] \notin {"ss_res / (n - p)", "inv"}

\* C19: when every per-event price (or volatility) change is zero, or their
\* standard deviation is 0, statistical_significance_testing returns a result
\* that reports the Wilcoxon test as degenerate and Cohen's d as NaN; it does
\* not raise.
C19_DegenerateReported ==
    (impact.op = "statistical_significance_testing" /\ Admissible(data)) =>
        LET pc == StudyChanges(data, events, "price_change_pct")
            vc == StudyChanges(data, events, "volatility_change_pct")
            Flat(xs) == \A i \in 1..Len(xs) : xs[i] = xs[1]
            Zero(xs) == \A i \in 1..Len(xs) : IsZeroChange(xs[i])
        IN  (pc # <<>> /\ (Flat(pc) \/ Flat(vc))) =>
              /\ impact.outcome = "ok"
              /\ Zero(pc) =>
                    impact.results[1].price_impact_tests.wilcoxon_statistic = "nan"
              /\ Zero(vc) =>
                    impact.results[1].volatility_impact_tests.wilcoxon_statistic = "nan"
              /\ Flat(pc) => impact.results[1].price_impact_tests.cohen_d = NaN
              /\ Flat(vc) => impact.results[1].volatility_impact_tests.cohen_d = NaN

\* C20: for every analysed event of a series of positive prices the trajectory
\* has one entry per observation of the post-event window, entry j being
\* (post price j - base) / base * 100 with base the last price before the
\* event; max_impact and min_impact are its maximum and minimum, final_impact
\* its last entry, impact_range their difference, and
\* min_impact <= final_impact <= max_impact.
C20_CumulativeTrajectory ==
    (impact.op = "cumulative_impact_analysis" /\ Admissible(data)) =>
        /\ Len(impact.results) = Len(AnalysedEvents(data, events, event_window))
        /\ \A k \in 1..Len(impact.results) :
              LET r == impact.results[k]
                  e == GetLoc(r.event_date, IndexOf(data))
                  hi == Min2(Len(data), e + event_window)
                  base == data[e].price
                  traj == r.cumulative_changes
              IN  /\ r.event_date = AnalysedEvents(data, events, event_window)[k].date
                  /\ Len(traj) = hi - e
                  /\ \A j \in 1..Len(traj) :
                        traj[j] = Rat(100 * (data[e + j].price - base), base)
                  /\ \E j \in 1..Len(traj) : r.max_impact = traj[j]
                  /\ \E j \in 1..Len(traj) : r.min_impact = traj[j]
                  /\ \A j \in 1..Len(traj) :
                        ~Less(r.max_impact, traj[j]) /\ ~Less(traj[j], r.min_impact)
                  /\ r.final_impact = traj[Len(traj)]
                  /\ r.impact_range = Minus(r.max_impact, r.min_impact)
                  /\ ~Less(r.final_impact, r.min_impact)
                  /\ ~Less(r.max_impact, r.final_impact)

C20_Witness ==
    /\ impact.op = "cumulative_impact_analysis"
    /\ Admissible(data)
    /\ \E k \in 1..Len(impact.results) :
          LET r == impact.results[k]
          IN  /\ Len(r.cumulative_changes) >= 2
              /\ Less(r.min_impact, r.max_impact)
              /\ r.final_impact = r.min_impact
              /\ r.impact_range = Num(100)

\* no catalogued event is dated in the price series with a price before it
NoEventToStudy ==
    \A j \in 1..Len(events) : \A i \in 1..Len(data) :
        (data[i].date = events[j].date) => (i = 1)

\* C30: when no catalogued event is a date of the price series, or each such
\* event has an empty window, event_study_analysis returns an empty list
\* with an empty summary and statistical_significance_testing returns only
\* 'error', raising nothing and running no test; otherwise the summary has
\* significant_events <= total_events = number of event results.
C30_EmptyEventStudy ==
    /\ Studied =>
          /\ impact.outcome = "ok"
          /\ IF NoEventToStudy
             THEN impact.results = <<>> /\ DOMAIN impact.summary = {}
             ELSE /\ impact.summary.significant_events <= impact.summary.total_events
                  /\ impact.summary.total_events = Len(impact.results)
                  /\ impact.summary.total_events >= 1
    /\ (impact.op = "statistical_significance_testing" /\ NoEventToStudy) =>
          /\ impact.outcome = "ok"
          /\ Len(impact.results) = 1
          /\ DOMAIN impact.results[1] = {"error"}
          /\ impact.steps = <<>>

\* The significance tests were asked for with two catalogued events, one on
\* the first date of the series and one on no date of it.
C30_Witness ==
    /\ impact.op = "statistical_significance_testing"
    /\ Len(data) >= 2 /\ Len(events) = 2
    /\ events[1].date = data[1].date
    /\ ~InIndex(events[2].date, IndexOf(data))
    /\ DOMAIN impact.results[1] = {"error"}

(***************************************************************************)
(* The Flask application (backend/app.py).                                 *)
(*                                                                         *)
(* The module keeps four objects in globals; every handler loads them      *)
(* lazily when the one it looks at is still None.  load_data assigns the   *)
(* globals one after the other, so each assignment is a step of the        *)
(* request that runs it.  The class ChangePointAnalyzer the module imports *)
(* is not part of the sources: its three methods are modelled from the     *)
(* specification (a fit produces a trace or fails, the analysis needs a    *)
(* trace and reduces the one the object holds, the convergence check reads *)
(* the object's trace and never fails), each as one step.  A trace is      *)
(* identified by the request whose fit sampled it.                         *)
(***************************************************************************)
Endpoints ==
    {"get_data_summary", "get_events", "get_impact_summary",
     "get_change_points", "run_change_point_analysis"}

\* A new ChangePointAnalyzer(oil_data): nothing fitted, nothing analysed.
FreshAnalyzer == [obj |-> 1, trace |-> None, change_points |-> None]

\* The globals after load_data has run to its end.
ApiLoaded ==
    /\ oil_data = "sorted" /\ event_research = 1 /\ impact_analyzer = 1
    /\ change_point_analyzer = FreshAnalyzer /\ req = <<>> /\ postOk = FALSE

NewRequest(e) ==
    [endpoint |-> e, pc |-> "start", loads |-> FALSE, fit |-> None,
     change_points |-> None, converged |-> None, status |-> 0]

\* `if <global> is None:` at the head of the handler of endpoint e.
GlobalIsNone(e) ==
    CASE e = "get_data_summary" -> oil_data = "None"
      [] e = "get_events" -> event_research = None
      [] e = "get_impact_summary" -> impact_analyzer = None
      [] OTHER -> change_point_analyzer.obj = None

At(i, pc) == i \in 1..Len(req) /\ req[i].pc = pc

Goto(i, pc) == req' = [req EXCEPT ![i].pc = pc]

Respond(i, status) == req' = [req EXCEPT ![i].pc = "done", ![i].status = status]

AllDone == \A i \in 1..Len(req) : req[i].pc = "done"

\* A request arrives and its handler is entered.
StartRequest(e) ==
    /\ UNCHANGED <<objVars, segVars, impVars, resVars, loadVars>>
    /\ Len(req) < MaxRequests
    /\ req' = Append(req, NewRequest(e))
    /\ UNCHANGED <<oil_data, event_research, change_point_analyzer,
                   impact_analyzer, postOk>>

CheckLoaded(i) ==
    /\ UNCHANGED <<objVars, segVars, impVars, resVars, loadVars>>
    /\ At(i, "start")
    /\ IF GlobalIsNone(req[i].endpoint)
       THEN req' = [req EXCEPT ![i].pc = "read_csv", ![i].loads = TRUE]
       ELSE Goto(i, "body")
    /\ UNCHANGED <<oil_data, event_research, change_point_analyzer,
                   impact_analyzer, postOk>>

\* load_data: oil_data = pd.read_csv(data_path)
LoadOilData(i) ==
    /\ UNCHANGED <<objVars, segVars, impVars, resVars, loadVars>>
    /\ At(i, "read_csv")
    /\ oil_data' = "raw"
    /\ Goto(i, "sort_values")
    /\ UNCHANGED <<event_research, change_point_analyzer, impact_analyzer, postOk>>

\* load_data: the dates are parsed and the rows sorted
ParseAndSort(i) ==
    /\ UNCHANGED <<objVars, segVars, impVars, resVars, loadVars>>
    /\ At(i, "sort_values")
    /\ oil_data' = "sorted"
    /\ Goto(i, "EventResearch")
    /\ UNCHANGED <<event_research, change_point_analyzer, impact_analyzer, postOk>>

LoadEventResearch(i) ==
    /\ UNCHANGED <<objVars, segVars, impVars, resVars, loadVars>>
    /\ At(i, "EventResearch")
    /\ event_research' = 1
    /\ Goto(i, "ChangePointAnalyzer")
    /\ UNCHANGED <<oil_data, change_point_analyzer, impact_analyzer, postOk>>

\* load_data replaces the analyzer by a new one, whatever the old one held.
LoadChangePointAnalyzer(i) ==
    /\ UNCHANGED <<objVars, segVars, impVars, resVars, loadVars>>
    /\ At(i, "ChangePointAnalyzer")
    /\ change_point_analyzer' = FreshAnalyzer
    /\ Goto(i, "ImpactAnalyzer")
    /\ UNCHANGED <<oil_data, event_research, impact_analyzer, postOk>>

LoadImpactAnalyzer(i) ==
    /\ UNCHANGED <<objVars, segVars, impVars, resVars, loadVars>>
    /\ At(i, "ImpactAnalyzer")
    /\ impact_analyzer' = 1
    /\ Goto(i, "body")
    /\ UNCHANGED <<oil_data, event_research, change_point_analyzer, postOk>>

\* The handlers that only read the loaded objects.
ReadOnlyEndpoint(i) ==
    /\ UNCHANGED <<objVars, segVars, impVars, resVars, loadVars>>
    /\ At(i, "body")
    /\ req[i].endpoint \in {"get_data_summary", "get_events", "get_impact_summary"}
    /\ Respond(i, 200)
    /\ UNCHANGED <<oil_data, event_research, change_point_analyzer,
                   impact_analyzer, postOk>>

GetChangePointsOpen(a) == 200

\* get_change_points: the status it answers with, given the analyzer.
GetChangePointsStatus(a) ==
    IF a.trace = None THEN 400
    ELSE IF a.change_points = None THEN 400
    ELSE 200

GetChangePoints(i) ==
    /\ UNCHANGED <<objVars, segVars, impVars, resVars, loadVars>>
    /\ At(i, "body")
    /\ req[i].endpoint = "get_change_points"
    /\ req' = [req EXCEPT ![i].pc = "done",
                          ![i].status = GetChangePointsStatus(change_point_analyzer),
                          ![i].change_points = change_point_analyzer.change_points]
    /\ UNCHANGED <<oil_data, event_research, change_point_analyzer,
                   impact_analyzer, postOk>>

\* run_change_point_analysis: request.get_json() and fit_model(...).  A body
\* that is no JSON object and a failure of the sampler both end in the
\* handler's `except Exception`, which answers 500.
PostFitModel(i) ==
    /\ UNCHANGED <<objVars, segVars, impVars, resVars, loadVars>>
    /\ At(i, "body")
    /\ req[i].endpoint = "run_change_point_analysis"
    /\ \E outcome \in {"bad_json", "sampling_error", "trace"} :
        IF outcome = "trace"
        THEN /\ change_point_analyzer' = [change_point_analyzer EXCEPT !.trace = i]
             /\ req' = [req EXCEPT ![i].pc = "analyze_change_points", ![i].fit = i]
        ELSE /\ Respond(i, 500)
             /\ UNCHANGED change_point_analyzer
    /\ UNCHANGED <<oil_data, event_research, impact_analyzer, postOk>>

\* run_change_point_analysis: change_point_analyzer.analyze_change_points()
PostAnalyzeChangePoints(i) ==
    /\ UNCHANGED <<objVars, segVars, impVars, resVars, loadVars>>
    /\ At(i, "analyze_change_points")
    /\ \E raises \in BOOLEAN :
        IF change_point_analyzer.trace = None \/ raises
        THEN /\ Respond(i, 500)
             /\ UNCHANGED change_point_analyzer
        ELSE /\ change_point_analyzer' =
                    [change_point_analyzer EXCEPT
                        !.change_points = change_point_analyzer.trace]
             /\ req' = [req EXCEPT ![i].pc = "check_convergence",
                                   ![i].change_points = change_point_analyzer.trace]
    /\ UNCHANGED <<oil_data, event_research, impact_analyzer, postOk>>

\* run_change_point_analysis: check_convergence() and the 200 response
PostCheckConvergence(i) ==
    /\ UNCHANGED <<objVars, segVars, impVars, resVars, loadVars>>
    /\ At(i, "check_convergence")
    /\ req' = [req EXCEPT ![i].pc = "done", ![i].status = 200,
                          ![i].converged = change_point_analyzer.trace]
    /\ postOk' = TRUE
    /\ UNCHANGED <<oil_data, event_research, change_point_analyzer, impact_analyzer>>

Serve(i) ==
    \/ CheckLoaded(i)
    \/ LoadOilData(i)
    \/ ParseAndSort(i)
    \/ LoadEventResearch(i)
    \/ LoadChangePointAnalyzer(i)
    \/ LoadImpactAnalyzer(i)
    \/ ReadOnlyEndpoint(i)
    \/ GetChangePoints(i)
    \/ PostFitModel(i)
    \/ PostAnalyzeChangePoints(i)
    \/ PostCheckConvergence(i)

\* The module is either imported (nothing loaded) or run as the main
\* program, which calls load_data() before it serves.
ApiInit ==
    /\ ObjIdle /\ SegIdle /\ ImpIdle /\ ResIdle /\ LoadIdle
    /\ ApiIdle \/ ApiLoaded

\* Requests handled by concurrent workers: their steps interleave.
ApiNext ==
    \/ \E e \in Endpoints : StartRequest(e)
    \/ \E i \in 1..MaxRequests : Serve(i)

ApiSpec == ApiInit /\ [][ApiNext]_vars

\* Requests handled one after the other: a request is taken up only when
\* every earlier one has been answered.
ApiSeqNext ==
    \/ \E e \in Endpoints : AllDone /\ StartRequest(e)
    \/ \E i \in 1..MaxRequests : Serve(i)

ApiSeqSpec == ApiInit /\ [][ApiSeqNext]_vars

C3_OwnFitReported ==
    \A i \in 1..Len(req) :
        (/\ req[i].endpoint = "run_change_point_analysis"
         /\ req[i].pc = "done"
         /\ req[i].status = 200)
        => /\ req[i].change_points = req[i].fit
           /\ req[i].converged = req[i].fit

\* all four globals are set and the dates of oil_data are parsed and sorted
AllLoaded ==
    /\ oil_data = "sorted" /\ event_research # None
    /\ change_point_analyzer.obj # None /\ impact_analyzer # None

\* C29: however the requests that lazily call load_data interleave, a
\* handler reaches its body, where it uses the module-level objects, only
\* when all four are set and oil_data is parsed and sorted; and an object
\* once set is not assigned again by a second load.
C29_LoadedBeforeUse ==
    [][/\ \A i \in 1..Len(req') : (req'[i].pc = "body") => AllLoaded'
       /\ (oil_data = "sorted") => (oil_data' = "sorted")
       /\ (change_point_analyzer.obj # None) =>
             (change_point_analyzer'.trace = None =>
                 change_point_analyzer.trace = None)]_vars

(***************************************************************************)
(* The EventResearch object (event_research.py).  __init__ leaves          *)
(* events_df None; compile_historical_events builds the catalogue, here a  *)
(* few of its entries; the other five methods test events_df first.        *)
(***************************************************************************)
MaxCalls == 3      \* most calls made on an EventResearch object

\* the message of the ValueError the five methods raise
NotCompiled == "ValueError: Event data not compiled. Run compile_historical_events() first."

EventTypes == {"OPEC", "CONFLICT", "ECONOMIC"}

\* events_data, reduced to three entries
HistoricalEvents ==
    <<[date |-> 1, event_type |-> "OPEC"],
      [date |-> 3, event_type |-> "CONFLICT"],
      [date |-> 5, event_type |-> "OPEC"]>>

\* a test that lets every call through
EventsDfNeverNone(df) == FALSE

\* self.events_df is None
EventsDfIsNone(df) == df.is_none

\* events_df['date'].min() and .max(), 0 standing for NaT on an empty frame
MinDate(rows) ==
    IF rows = <<>> THEN 0
    ELSE CHOOSE d \in {rows[i].date : i \in 1..Len(rows)} :
            \A i \in 1..Len(rows) : d <= rows[i].date

MaxDate(rows) ==
    IF rows = <<>> THEN 0
    ELSE CHOOSE d \in {rows[i].date : i \in 1..Len(rows)} :
            \A i \in 1..Len(rows) : d >= rows[i].date

\* validate_event_data: its counts and its date range
ValidateEventData(df) ==
    <<[total_events |-> Len(df.rows),
       start |-> MinDate(df.rows), end |-> MaxDate(df.rows)]>>

\* get_events_by_type
GetEventsByType(df, event_type) ==
    LET OfType(r) == r.event_type = event_type
    IN  SelectSeq(df.rows, OfType)

\* get_events_by_date_range
GetEventsByDateRange(df, start_dt, end_dt) ==
    LET InRange(r) == r.date >= start_dt /\ r.date <= end_dt
    IN  SelectSeq(df.rows, InRange)

\* calculate_event_density: one count per day between the first and the last
\* event, over the window of window_days // 2 days to either side
CalculateEventDensity(df, window_days) ==
    IF df.rows = <<>> THEN <<>>
    ELSE LET first == MinDate(df.rows)
             half == window_days \div 2
         IN  [k \in 1..(MaxDate(df.rows) - first + 1) |->
                [date |-> first + k - 1,
                 event_count |->
                    Cardinality({i \in 1..Len(df.rows) :
                        /\ df.rows[i].date >= first + k - 1 - half
                        /\ df.rows[i].date <= first + k - 1 + half})]]

\* one more call in the log of the object
Logged(op, outcome, result) ==
    /\ Len(research_log) < MaxCalls
    /\ research_log' = Append(research_log,
                              [op |-> op, outcome |-> outcome, result |-> result])

\* a method that starts with `if self.events_df is None: raise ValueError(...)`
Guarded(op, outcome, result) ==
    /\ IF EventsDfIsNone(events_df)
       THEN Logged(op, NotCompiled, <<>>)
       ELSE Logged(op, outcome, result)
    /\ UNCHANGED events_df

CompileHistoricalEvents ==
    /\ events_df' = [is_none |-> FALSE, rows |-> HistoricalEvents]
    /\ Logged("compile_historical_events", "ok", HistoricalEvents)
    /\ UNCHANGED <<objVars, segVars, apiVars, impVars, loadVars>>

ValidateEventDataCall ==
    /\ Guarded("validate_event_data", "ok", ValidateEventData(events_df))
    /\ UNCHANGED <<objVars, segVars, apiVars, impVars, loadVars>>

GetEventsByTypeCall ==
    \E event_type \in EventTypes :
        /\ Guarded("get_events_by_type", "ok", GetEventsByType(events_df, event_type))
        /\ UNCHANGED <<objVars, segVars, apiVars, impVars, loadVars>>

GetEventsByDateRangeCall ==
    \E range \in {<<0, 6>>, <<3, 3>>, <<4, 2>>} :
        /\ Guarded("get_events_by_date_range", "ok",
                   GetEventsByDateRange(events_df, range[1], range[2]))
        /\ UNCHANGED <<objVars, segVars, apiVars, impVars, loadVars>>

CalculateEventDensityCall ==
    \E window_days \in {0, 2, 30} :
        /\ Guarded("calculate_event_density", "ok",
                   CalculateEventDensity(events_df, window_days))
        /\ UNCHANGED <<objVars, segVars, apiVars, impVars, loadVars>>

\* export_events_to_csv: to_csv writes the file or fails with an OSError
ExportEventsToCsv ==
    \E outcome \in {"ok", "OSError"} :
        /\ Guarded("export_events_to_csv", outcome, <<>>)
        /\ UNCHANGED <<objVars, segVars, apiVars, impVars, loadVars>>

ResInit ==
    /\ events_df = NoEventsDf /\ research_log = <<>>
    /\ ObjIdle /\ SegIdle /\ ApiIdle /\ ImpIdle /\ LoadIdle

ResNext ==
    \/ CompileHistoricalEvents
    \/ ValidateEventDataCall
    \/ GetEventsByTypeCall
    \/ GetEventsByDateRangeCall
    \/ CalculateEventDensityCall
    \/ ExportEventsToCsv

ResSpec == ResInit /\ [][ResNext]_vars

\* the five methods that need the compiled catalogue
NeedCompiled ==
    {"validate_event_data", "get_events_by_type", "get_events_by_date_range",
     "calculate_event_density", "export_events_to_csv"}

\* C22: each of the five methods fails with the error that names
\* compile_historical_events when it is called before that method has run,
\* and then leaves the object as it was; once compile_historical_events has
\* run, none of them fails with that error, in whatever order they follow.
C22_CompileFirst ==
    [][(Len(research_log') = Len(research_log) + 1) =>
          LET last == research_log'[Len(research_log')]
              compiled == \E i \in 1..Len(research_log) :
                              research_log[i].op = "compile_historical_events"
          IN  (last.op \in NeedCompiled) =>
                 IF compiled
                 THEN last.outcome \in {"ok", "OSError"}
                 ELSE /\ last.outcome =
                        "ValueError: Event data not compiled. Run compile_historical_events() first."
                      /\ events_df' = events_df
                      /\ events_df'.is_none]_vars

\* A method was refused, the catalogue was compiled, and the same method
\* then returned its result.
C22_Witness ==
    /\ Len(research_log) = 3
    /\ research_log[1].op = "calculate_event_density"
    /\ research_log[1].outcome = NotCompiled
    /\ research_log[2].op = "compile_historical_events"
    /\ research_log[3].op = "calculate_event_density"
    /\ research_log[3].outcome = "ok"
    /\ Len(research_log[3].result) = 5

(***************************************************************************)
(* Loading the price series: load_data of app.py and main of               *)
(* run_analysis.py read BrentOilPrices.csv, apply the same parse_date to   *)
(* its Date column and hand the frame to the analysers; load_data sorts    *)
(* it by date first.  A cell of the Date column is the text of a date in   *)
(* one of the two accepted formats, in another format pandas can infer,    *)
(* a text that is no date, or empty (read by read_csv as NaN).             *)
(***************************************************************************)
NaT == [kind |-> "NaT", day |-> 0]

Timestamp(day) == [kind |-> "date", day |-> day]

\* the texts pd.to_datetime turns into a date: '%d-%b-%y', '%b %d, %Y', inferred
Parseable == {"dd-Mon-yy", "Mon dd, yyyy", "inferable"}

DateCells ==
    {[kind |-> k, day |-> d] : k \in Parseable, d \in 1..2}
        \cup {[kind |-> "unparseable", day |-> 0], [kind |-> "missing", day |-> 0]}

\* parse_date: NaT for a NaN cell, the date for a text one of the three
\* pd.to_datetime calls accepts; the last call's error is not caught
ParseDate(cell) ==
    IF cell.kind = "missing" THEN [raised |-> FALSE, value |-> NaT]
    ELSE IF cell.kind \in Parseable
    THEN [raised |-> FALSE, value |-> Timestamp(cell.day)]
    ELSE [raised |-> TRUE, value |-> NaT]

\* oil_data['Date'].apply(parse_date): the rows of the file with their parsed
\* dates; the Price of a row is taken to be its line number
ApplyParseDate(cells) ==
    [i \in 1..Len(cells) |-> [Date |-> ParseDate(cells[i]).value, Price |-> i]]

ParseRaises(cells) == \E i \in 1..Len(cells) : ParseDate(cells[i]).raised

\* a before b in sort_values('Date'): ascending, NaT last
DateOrdered(a, b) ==
    \/ b.kind = "NaT"
    \/ a.kind = "date" /\ b.kind = "date" /\ a.day <= b.day

\* sort_values('Date').reset_index(drop=True): the rows in ascending order of
\* date, rows of equal date in an order the sort does not promise
SortValues(rows) ==
    LET n == Len(rows)
        perms == {p \in [1..n -> 1..n] : \A i, j \in 1..n : (p[i] = p[j]) => (i = j)}
    IN  {[i \in 1..n |-> rows[p[i]]] : p \in
            {q \in perms : \A i \in 1..(n - 1) :
                               DateOrdered(rows[q[i]].Date, rows[q[i + 1]].Date)}}

\* load_data (app.py)
LoadData ==
    /\ load.by = "none"
    /\ IF ParseRaises(csv_file)
       THEN load' = [by |-> "load_data", outcome |-> "ValueError", series |-> <<>>]
       ELSE \E sorted \in SortValues(ApplyParseDate(csv_file)) :
                load' = [by |-> "load_data", outcome |-> "ok", series |-> sorted]
    /\ UNCHANGED csv_file
    /\ UNCHANGED <<objVars, segVars, apiVars, impVars, resVars>>

\* main (run_analysis.py): the same parse, no sort
Main ==
    /\ load.by = "none"
    /\ IF ParseRaises(csv_file)
       THEN load' = [by |-> "main", outcome |-> "ValueError", series |-> <<>>]
       ELSE load' = [by |-> "main", outcome |-> "ok",
                     series |-> ApplyParseDate(csv_file)]
    /\ UNCHANGED csv_file
    /\ UNCHANGED <<objVars, segVars, apiVars, impVars, resVars>>

LoadInit ==
    /\ csv_file \in SeqsUpTo(DateCells, MaxLen)
    /\ load = NoLoad
    /\ ObjIdle /\ SegIdle /\ ApiIdle /\ ImpIdle /\ ResIdle

LoadNext == LoadData \/ Main

LoadSpec == LoadInit /\ [][LoadNext]_vars

\* C21: a date that matches neither accepted format and cannot be parsed is
\* treated as missing and its row left out: loading does not fail, gives the
\* row no sentinel date, and hands the analysers exactly the rows whose date
\* could be read, none with a missing date.
C21_UnparseableExcluded ==
    (load.by # "none") =>
        /\ load.outcome = "ok"
        /\ \A k \in 1..Len(load.series) : load.series[k].Date.kind = "date"
        /\ \A i \in 1..Len(csv_file) :
              (csv_file[i].kind \in Parseable) <=>
                 (\E k \in 1..Len(load.series) :
                     /\ load.series[k].Price = i
                     /\ load.series[k].Date = Timestamp(csv_file[i].day))

====
